---------------------------- MODULE Spec2Model ----------------------------
(***************************************************************************)
(* Reliability / error-budget platform: the persisted tables, the          *)
(* Burn-Rate Engine, the Release Gate, the Alert Manager and the periodic  *)
(* coordinator, as state machines over the tables.                         *)
(*                                                                         *)
(* Units.  Python floats are modelled as exact decimals scaled to          *)
(* integers: burn rates in thousandths (round(x, 3)), percentages in       *)
(* hundredths of a percent (round(x, 2)), SLO targets in tenths of a       *)
(* percent (99.9 -> 999).  Time is in minutes.                             *)
(***************************************************************************)
EXTENDS Integers, Sequences, FiniteSets, Bags, TLC

(***************************************************************************)
(* Bounds of the model.                                                    *)
(***************************************************************************)
MaxNow == 10
MaxMetrics == 2
MaxDeployments == 2
MaxTicks == 2
MaxForecastTicks == 3
MaxTargets == 3

ServiceNames == {"checkout", "search"}
\* the service that release-gate requests name and that snapshots are ingested for
GateNames == {"checkout"}
Delays == {5, 10}
\* age (minutes before now) of an ingested snapshot's timestamp
Ages == {0, 30, 600}
\* <<total_requests, error_count>> of the snapshots that are ingested; with the
\* 99.9 target they give burn rates 0, 0.7, 0.9 and 1.0 around the release gate
\* and 0, 0.9 and 3.0 around the alert evaluation
GateKinds == {<<10000, 0>>, <<10000, 7>>, <<10000, 9>>, <<10000, 10>>}
AlertKinds == {<<10000, 0>>, <<10000, 9>>, <<10000, 30>>}
\* around a release check that no ingestion interleaves: burn rates 0, 0.9,
\* 1.0 and 3.0
QuietKinds == {<<10000, 0>>, <<10000, 9>>, <<10000, 10>>, <<10000, 30>>}
\* and beside the coordinator: burn rate 3.0
TickKinds == {<<10000, 30>>}
\* snapshots for the forecast: half the budget burnt, a little more burnt,
\* and all of it burnt
ForecastKinds == {<<100000, 50>>, <<1000, 1>>, <<100000, 100>>}
\* services of the simulator, and the timestamps (minutes) given to
\* generate_snapshot
SimServices == {"api-gateway", "user-service"}
SnapshotTimes == {0, 5, 6, 30, 31, 41}
\* target_value of the SLO requests (tenths of a percent: 99.0, 100, 100.5)
\* and their window_days
\* burn rates (thousandths) and consumed budgets (hundredths of a percent)
\* given to the classifier: at, just below and beyond its cutoffs
BurnRates == {0, 1499, 1500, 1999, 2000, 2999, 3000, 5000}
Consumed == {0, 6999, 7000, 8499, 8500, 9499, 9500, 10000}
TargetValues == {990, 1000, 1005}
WindowDays == {30, 0}
\* window_minutes of the computations that are called on their own
Windows == {5, 60, 1440}
\* snapshots around the computations: no traffic, within the budget, half of
\* it, more errors than requests
BurnKinds == {<<0, 0>>, <<10000, 5>>, <<10, 20>>}
\* and around ingestion: negative requests, more errors than requests, fewer
IngestKinds == {<<-1, 0>>, <<10, 20>>, <<10, 5>>}
DeploymentIds == {"deploy-1", ""}
Null == "<None>"
OverrideReasons == {Null, "", "hotfix for CVE-2024-X"}
Uuid == <<"uuid-1", "uuid-2", "uuid-3", "uuid-4">>

(***************************************************************************)
(* Program constants (core/config.py, burn_rate_service.py).               *)
(***************************************************************************)
BURN_RATE_OBSERVE_THRESHOLD == 1500
BURN_RATE_DANGER_THRESHOLD == 2000
BURN_RATE_FREEZE_THRESHOLD == 3000
ERROR_BUDGET_OBSERVE_THRESHOLD == 7000
ERROR_BUDGET_DANGER_THRESHOLD == 8500
ERROR_BUDGET_FREEZE_THRESHOLD == 9500
RELEASE_GATE_BURN_RATE_THRESHOLD == 2000
RELEASE_GATE_BUDGET_THRESHOLD == 9000
ALERT_COOLDOWN_MINUTES == 15
COMPUTATION_INTERVAL_MINUTES == 1
DefaultTargetValue == 999
\* window minutes and weight (in tenths) of BurnRateEngine.WINDOW_CONFIGS
\* the windows with the weight moved from the second to the first
WindowConfigsFirstHeavy ==
    << [minutes |-> 5, weight |-> 4],
       [minutes |-> 60, weight |-> 3],
       [minutes |-> 1440, weight |-> 3] >>

WINDOW_CONFIGS ==
    << [minutes |-> 5, weight |-> 3],
       [minutes |-> 60, weight |-> 4],
       [minutes |-> 1440, weight |-> 3] >>

VARIABLES
    now,            \* datetime.utcnow(), minutes
    services,       \* services table: set of [name, is_active]
    slo_targets,    \* slo_targets table: set of rows [id, service_id, name, target_value, ...]
    metrics,        \* metrics table: a bag of rows (row ids are not modelled)
    burn_history,   \* burn_history table, in insertion order
    deployments,    \* deployments table, in insertion order
    alerts,         \* alerts table, in insertion order
    gate,           \* the check_release call in flight and its outcome
    evalr,          \* the last evaluate_and_alert call made outside the coordinator
    coord,          \* the periodic_computation task
    call,           \* the last call of a function or endpoint that is looked at
                    \* on its own: [op, args, result]
    simulator       \* a MetricsSimulator: [_incident_services, _incident_start_times]

vars == <<now, services, slo_targets, metrics, burn_history, deployments, alerts,
          gate, evalr, coord, call, simulator>>

(***************************************************************************)
(* Arithmetic helpers.                                                     *)
(***************************************************************************)

\* Python round(): the non-negative rational num/den to the nearest integer,
\* ties to even
Round(num, den) ==
    LET q == num \div den
        r == num % den
    IN  IF 2 * r < den THEN q
        ELSE IF 2 * r > den THEN q + 1
        ELSE IF q % 2 = 0 THEN q ELSE q + 1

RECURSIVE SumOver(_, _)
SumOver(f, S) ==
    IF S = {} THEN 0
    ELSE LET x == CHOOSE y \in S : TRUE
         IN  f[x] + SumOver(f, S \ {x})


(***************************************************************************)
(* Burn-Rate Engine (services/burn_rate_service.py).                       *)
(***************************************************************************)
Service(name) == CHOOSE s \in services : s.name = name
ServiceKnown(name) == \E s \in services : s.name = name

\* a float as the exact rational num/den, den > 0
Rat(num, den) == [num |-> num, den |-> den]
\* comparisons that are not the classifier's: strict, and reversed
RatGT(x, thr, scale) == x.num * scale > thr * x.den
RatLE(x, thr, scale) == x.num * scale <= thr * x.den

\* x >= thr / scale
RatGE(x, thr, scale) == x.num * scale >= thr * x.den

_risk_severity(risk) ==
    CASE risk = "safe" -> 0
      [] risk = "observe" -> 1
      [] risk = "danger" -> 2
      [] risk = "freeze" -> 3
      [] OTHER -> 0

\* a classifier that looks at the burn rate alone
ClassifyRiskBurnOnly(burn_rate, budget_consumed) ==
    IF RatGE(burn_rate, BURN_RATE_FREEZE_THRESHOLD, 1000) THEN "freeze"
    ELSE IF RatGE(burn_rate, BURN_RATE_DANGER_THRESHOLD, 1000) THEN "danger"
    ELSE IF RatGE(burn_rate, BURN_RATE_OBSERVE_THRESHOLD, 1000) THEN "observe"
    ELSE "safe"

\* burn_rate and budget_consumed are the unrounded floats
_classify_risk(burn_rate, budget_consumed) ==
    IF RatGE(burn_rate, BURN_RATE_FREEZE_THRESHOLD, 1000)
       \/ RatGE(budget_consumed, ERROR_BUDGET_FREEZE_THRESHOLD, 100)
    THEN "freeze"
    ELSE IF RatGE(burn_rate, BURN_RATE_DANGER_THRESHOLD, 1000)
            \/ RatGE(budget_consumed, ERROR_BUDGET_DANGER_THRESHOLD, 100)
    THEN "danger"
    ELSE IF RatGE(burn_rate, BURN_RATE_OBSERVE_THRESHOLD, 1000)
            \/ RatGE(budget_consumed, ERROR_BUDGET_OBSERVE_THRESHOLD, 100)
    THEN "observe"
    ELSE "safe"

\* the active "availability" target of the service, or the 99.9 fallback
TargetValue(service_id) ==
    LET found == {t \in slo_targets : /\ t.service_id = service_id
                                      /\ t.name = "availability"
                                      /\ t.is_active}
    IN  IF found = {} THEN DefaultTargetValue
        \* .first() without ORDER BY: the row with the lowest id
        ELSE (CHOOSE t \in found : \A u \in found : t.id <= u.id).target_value

\* the distinct metric rows of the service with timestamp in [now - w, now]
WindowRows(service_id, window_minutes) ==
    {m \in BagToSet(metrics) : /\ m.service_id = service_id
                               /\ m.timestamp >= now - window_minutes
                               /\ m.timestamp <= now}

\* compute_burn_rate for a service that exists (the ValueError for an absent
\* service id is raised by the callers' guards)
compute_burn_rate(service_id, window_minutes) ==
    LET rows == WindowRows(service_id, window_minutes)
        \* func.sum over the rows, each counted as often as it is stored
        total_requests == SumOver([m \in rows |-> m.total_requests * metrics[m]], rows)
        error_count == SumOver([m \in rows |-> m.error_count * metrics[m]], rows)
        \* allowed_error_rate = allowed / 1000
        allowed == 1000 - TargetValue(service_id)
        \* total_budget = total_requests * allowed_error_rate
        budget == total_requests * allowed
        burn_rate == IF allowed > 0 /\ total_requests > 0
                     THEN Rat(error_count * 1000, budget)
                     ELSE Rat(0, 1)
        consumed == IF budget > 0
                    THEN IF error_count * 1000 >= budget
                         THEN Rat(100, 1)
                         ELSE Rat(error_count * 1000 * 100, budget)
                    ELSE Rat(0, 1)
        \* max(100 - consumed_percentage, 0)
        remaining == IF budget > 0
                     THEN Rat(100 * consumed.den - consumed.num, consumed.den)
                     ELSE Rat(100, 1)
    IN  [ service_id |-> service_id,
          timestamp |-> now,
          window_minutes |-> window_minutes,
          burn_rate |-> Round(burn_rate.num * 1000, burn_rate.den),
          error_budget_consumed |-> Round(consumed.num * 100, consumed.den),
          error_budget_remaining |-> Round(remaining.num * 100, remaining.den),
          risk_level |-> _classify_risk(burn_rate, consumed) ]

compute_all_windows(service_id) ==
    [k \in DOMAIN WINDOW_CONFIGS |->
        compute_burn_rate(service_id, WINDOW_CONFIGS[k].minutes)]

\* the most severe risk level among the first k computations
RECURSIVE WorstRisk(_, _)
WorstRisk(computations, k) ==
    IF k = 0 THEN "safe"
    ELSE LET worst == WorstRisk(computations, k - 1)
         IN  IF _risk_severity(computations[k].risk_level) > _risk_severity(worst)
             THEN computations[k].risk_level
             ELSE worst

\* <<round(final_burn, 3), worst_risk>>
get_weighted_burn_rate(service_id) ==
    LET computations == compute_all_windows(service_id)
        K == DOMAIN WINDOW_CONFIGS
        weighted_burn == SumOver([k \in K |-> computations[k].burn_rate
                                              * WINDOW_CONFIGS[k].weight], K)
        total_weight == SumOver([k \in K |-> WINDOW_CONFIGS[k].weight], K)
    IN  << IF total_weight > 0 THEN Round(weighted_burn, total_weight) ELSE 0,
           WorstRisk(computations, Len(computations)) >>

\* a row whose remaining budget is filled from the consumed one
HistoryRowConsumedTwice(computation) ==
    [ service_id |-> computation.service_id,
      timestamp |-> computation.timestamp,
      window_minutes |-> computation.window_minutes,
      burn_rate |-> computation.burn_rate,
      error_budget_consumed |-> computation.error_budget_consumed,
      error_budget_remaining |-> computation.error_budget_consumed,
      risk_level |-> computation.risk_level ]

\* BurnHistory row of store_burn_history
HistoryRow(computation) ==
    [ service_id |-> computation.service_id,
      timestamp |-> computation.timestamp,
      window_minutes |-> computation.window_minutes,
      burn_rate |-> computation.burn_rate,
      error_budget_consumed |-> computation.error_budget_consumed,
      error_budget_remaining |-> computation.error_budget_remaining,
      risk_level |-> computation.risk_level ]


(***************************************************************************)
(* The clock, service registration and metric ingestion.                   *)
(***************************************************************************)
\* time passes (between requests, and between the statements of one request)
Tick(d) ==
    /\ now + d <= MaxNow
    /\ now' = now + d
    /\ UNCHANGED <<services, slo_targets, metrics, burn_history, deployments,
                   alerts, gate, evalr, coord, call, simulator>>

\* the two rows of create_default_slo_targets; ids are the table's sequence
DefaultTargets(service_id) ==
    LET n == Cardinality(slo_targets)
    IN  { [ id |-> n + 1, service_id |-> service_id, name |-> "availability",
            target_value |-> 999, window_days |-> 30, burn_rate_threshold |-> 1000,
            critical_burn_rate |-> 2000, is_active |-> TRUE ],
          [ id |-> n + 2, service_id |-> service_id, name |-> "latency_p99",
            target_value |-> 990, window_days |-> 30, burn_rate_threshold |-> 1000,
            critical_burn_rate |-> 2000, is_active |-> TRUE ] }

\* POST /services: 400 when the name exists, else the row and its default targets
create_service(name) ==
    /\ ~ServiceKnown(name)
    /\ services' = services \cup {[name |-> name, is_active |-> TRUE]}
    /\ slo_targets' = slo_targets \cup DefaultTargets(name)
    /\ UNCHANGED <<now, metrics, burn_history, deployments, alerts, gate, evalr, coord,
                   call, simulator>>

\* DELETE /services/{id}: soft delete
delete_service(name) ==
    /\ ServiceKnown(name)
    /\ Service(name).is_active
    /\ services' = (services \ {Service(name)})
                       \cup {[name |-> name, is_active |-> FALSE]}
    /\ UNCHANGED <<now, slo_targets, metrics, burn_history, deployments, alerts,
                   gate, evalr, coord, call, simulator>>

\* the loop of ingest_metrics over the batch: <<services, metrics>> after it
RECURSIVE IngestBatch(_, _, _)
IngestBatch(batch, svcs, rows) ==
    IF batch = <<>> THEN <<svcs, rows>>
    ELSE LET metric == Head(batch)
             known == \E s \in svcs : s.name = metric.service
             svcs2 == IF known THEN svcs
                      ELSE svcs \cup {[name |-> metric.service, is_active |-> TRUE]}
             row == [ service_id |-> metric.service,
                      timestamp |-> metric.timestamp,
                      total_requests |-> metric.total_requests,
                      error_count |-> metric.error_count ]
         IN  IngestBatch(Tail(batch), svcs2, rows (+) SetToBag({row}))

\* the Field constraints of MetricSnapshot: total_requests >= 0 and
\* error_count >= 0
MetricSnapshotValid(metric) ==
    /\ metric.total_requests >= 0
    /\ metric.error_count >= 0

\* POST /metrics/ingest: a body with a snapshot the schema refuses is answered
\* 422 before the handler runs; else the loop and one commit
ingest_metrics(batch) ==
    /\ BagCardinality(metrics) + Len(batch) <= MaxMetrics
    /\ IF \A i \in DOMAIN batch : MetricSnapshotValid(batch[i])
       THEN LET after == IngestBatch(batch, services, metrics)
            IN  /\ services' = after[1]
                /\ metrics' = after[2]
       ELSE UNCHANGED <<services, metrics>>
    /\ UNCHANGED <<now, slo_targets, burn_history, deployments, alerts, gate,
                   evalr, coord, call, simulator>>

\* the Metric row of a snapshot
MetricRow(metric) ==
    [ service_id |-> metric.service,
      timestamp |-> metric.timestamp,
      total_requests |-> metric.total_requests,
      error_count |-> metric.error_count ]

\* ingest_metrics of a worker that runs beside others, for a batch of one
\* snapshot.  First the service lookup, in the worker's own transaction ...
ingest_begin(batch) ==
    /\ Len(batch) = 1
    /\ MetricSnapshotValid(batch[1])
    /\ call.op = "ingest_metrics" => call.result.pc # "looked_up"
    /\ BagCardinality(metrics) + 1 < MaxMetrics
    /\ call' = [ op |-> "ingest_metrics", args |-> batch,
                 result |-> [ pc |-> "looked_up",
                              found |-> ServiceKnown(batch[1].service),
                              processed |-> 0, errors |-> 0 ] ]
    /\ UNCHANGED <<now, services, slo_targets, metrics, burn_history, deployments,
                   alerts, gate, evalr, coord, simulator>>

\* ... then the inserts and the commit.  When the lookup found no service, the
\* worker inserts one; if a service of the name (unique) has been committed
\* meanwhile the flush raises IntegrityError: the except counts an error, the
\* session is left failed, and the commit after the loop raises
ingest_end ==
    /\ call.op = "ingest_metrics"
    /\ call.result.pc = "looked_up"
    /\ LET metric == call.args[1]
       IN  IF ~call.result.found /\ ServiceKnown(metric.service)
           THEN /\ call' = [call EXCEPT !.result.pc = "raised",
                                        !.result.errors = 1]
                /\ UNCHANGED <<services, metrics>>
           ELSE /\ services' = IF call.result.found THEN services
                               ELSE services \cup
                                    {[name |-> metric.service, is_active |-> TRUE]}
                /\ metrics' = metrics (+) SetToBag({MetricRow(metric)})
                /\ call' = [call EXCEPT !.result.pc = "returned",
                                        !.result.processed = 1]
    /\ UNCHANGED <<now, slo_targets, burn_history, deployments, alerts, gate,
                   evalr, coord, simulator>>

\* the batches that are ingested: one snapshot of a service among names
Batches(names, kinds, ages) ==
    { << [ service |-> n, timestamp |-> now - a,
           total_requests |-> k[1], error_count |-> k[2] ] >> :
        n \in names, a \in ages, k \in kinds }

(***************************************************************************)
(* Release Gate (services/release_gate_service.py).                        *)
(***************************************************************************)
\* Python truthiness of an Optional[str]
Truthy(str) == str # Null /\ str # ""

\* reasons are sequences of the pieces the f-strings are built from
StartsWith(reason, piece) == Len(reason) > 0 /\ reason[1] = piece
Contains(reason, piece) == \E i \in DOMAIN reason : reason[i] = piece

\* _evaluate_gate with the override accepted on the flag alone
EvaluateGateFlagOnly(burn_rate, risk_level, budget_remaining, override, override_reason) ==
    IF risk_level \in {"freeze", "danger"}
    THEN IF override
         THEN << TRUE, <<"OVERRIDE:", "Deployment allowed despite",
                         IF risk_level = "freeze" THEN "FREEZE" ELSE "DANGER",
                         "state. Reason:", override_reason>> >>
         ELSE << FALSE, <<"Deployment blocked: System is in",
                          IF risk_level = "freeze" THEN "FREEZE" ELSE "DANGER">> >>
    ELSE IF burn_rate > RELEASE_GATE_BURN_RATE_THRESHOLD
            \/ 10000 - budget_remaining > RELEASE_GATE_BUDGET_THRESHOLD
    THEN << FALSE, <<"Deployment blocked:", "exceeds threshold">> >>
    ELSE << TRUE, <<"Deployment allowed:">> >>

\* _evaluate_gate with FREEZE blocking whatever the override, as the class
\* docstring puts it
EvaluateGateFreezeAlways(burn_rate, risk_level, budget_remaining, override, override_reason) ==
    IF risk_level = "freeze"
    THEN << FALSE, <<"Deployment blocked: System is in", "FREEZE",
                     "state due to critical reliability issues">> >>
    ELSE IF risk_level = "danger"
    THEN IF override /\ Truthy(override_reason)
         THEN << TRUE, <<"OVERRIDE:", "Deployment allowed despite", "DANGER",
                         "state. Reason:", override_reason>> >>
         ELSE << FALSE, <<"Deployment blocked: System is in", "DANGER",
                          "state with elevated error rates">> >>
    ELSE IF burn_rate > RELEASE_GATE_BURN_RATE_THRESHOLD
            \/ 10000 - budget_remaining > RELEASE_GATE_BUDGET_THRESHOLD
    THEN << FALSE, <<"Deployment blocked:", "exceeds threshold">> >>
    ELSE << TRUE, <<"Deployment allowed:">> >>

\* _evaluate_gate with the budget threshold compared against the budget
\* remaining instead of the budget consumed
EvaluateGateBudgetSwapped(burn_rate, risk_level, budget_remaining, override, override_reason) ==
    IF risk_level \in {"freeze", "danger"}
    THEN IF override /\ Truthy(override_reason)
         THEN << TRUE, <<"OVERRIDE:", "Deployment allowed despite",
                         IF risk_level = "freeze" THEN "FREEZE" ELSE "DANGER",
                         "state. Reason:", override_reason>> >>
         ELSE << FALSE, <<"Deployment blocked: System is in",
                          IF risk_level = "freeze" THEN "FREEZE" ELSE "DANGER">> >>
    ELSE IF burn_rate > RELEASE_GATE_BURN_RATE_THRESHOLD
            \/ budget_remaining > RELEASE_GATE_BUDGET_THRESHOLD
    THEN << FALSE, <<"Deployment blocked:", "exceeds threshold">> >>
    ELSE << TRUE, <<"Deployment allowed:">> >>

\* <<allowed, reason>>; the recommendations list does not feed the decision
_evaluate_gate(burn_rate, risk_level, budget_remaining, override, override_reason) ==
    IF risk_level = "freeze"
    THEN IF override /\ Truthy(override_reason)
         THEN << TRUE, <<"OVERRIDE:", "Deployment allowed despite", "FREEZE",
                         "state. Reason:", override_reason>> >>
         ELSE << FALSE, <<"Deployment blocked: System is in", "FREEZE",
                          "state due to critical reliability issues">> >>
    ELSE IF risk_level = "danger"
    THEN IF override /\ Truthy(override_reason)
         THEN << TRUE, <<"OVERRIDE:", "Deployment allowed despite", "DANGER",
                         "state. Reason:", override_reason>> >>
         ELSE << FALSE, <<"Deployment blocked: System is in", "DANGER",
                          "state with elevated error rates">> >>
    ELSE IF burn_rate > RELEASE_GATE_BURN_RATE_THRESHOLD
    THEN << FALSE, <<"Deployment blocked:", "Burn rate", "exceeds threshold">> >>
    ELSE IF 10000 - budget_remaining > RELEASE_GATE_BUDGET_THRESHOLD
    THEN << FALSE, <<"Deployment blocked:", "Error budget", "consumed exceeds threshold">> >>
    ELSE IF risk_level = "observe"
    THEN << TRUE, <<"Deployment allowed with caution:",
                    "System reliability is being observed">> >>
    ELSE << TRUE, <<"Deployment allowed:", "System reliability is healthy">> >>

\* None in a nullable Text column
NoReason == <<>>

\* _record_deployment storing the reason of every decision
DeploymentRowReasonAlways(service_id, deployment_id, allowed, reason, risk_level) ==
    [ service_id |-> service_id,
      deployment_id |-> IF deployment_id = "" THEN Uuid[Len(deployments) + 1]
                        ELSE deployment_id,
      allowed |-> allowed,
      blocked_reason |-> reason,
      risk_level_at_request |-> risk_level,
      status |-> IF allowed THEN "approved" ELSE "rejected" ]

\* the Deployment row of _record_deployment; uuid4 yields an id not used before.
\* version, requested_by and burn_rate_at_request are copied from the arguments
\* and read by nothing; they are left out.
DeploymentRow(service_id, deployment_id, allowed, reason, risk_level) ==
    [ service_id |-> service_id,
      deployment_id |-> IF deployment_id = "" THEN Uuid[Len(deployments) + 1]
                        ELSE deployment_id,
      allowed |-> allowed,
      blocked_reason |-> IF ~allowed THEN reason ELSE NoReason,
      risk_level_at_request |-> risk_level,
      status |-> IF allowed THEN "approved" ELSE "rejected" ]

\* a column without the unique constraint
UniqueViolationNever(row) == FALSE

\* deployments.deployment_id is unique: the commit raises IntegrityError
UniqueViolation(row) ==
    \E i \in DOMAIN deployments : deployments[i].deployment_id = row.deployment_id

NoRequest ==
    [service_name |-> "", deployment_id |-> "", override |-> FALSE,
     override_reason |-> Null]
NoResponse ==
    [allowed |-> FALSE, reason |-> <<>>, service_name |-> "", deployment_id |-> "",
     current_risk_level |-> "safe", current_burn_rate |-> 0,
     error_budget_remaining |-> 0]
GateIdle ==
    [pc |-> "idle", request |-> NoRequest, found |-> FALSE, budget_remaining |-> 0,
     response |-> NoResponse, rows_before |-> 0]

Requests ==
    [service_name : GateNames, deployment_id : DeploymentIds,
     override : BOOLEAN, override_reason : OverrideReasons]

\* check_release, lines 52-73: the service lookup and the 60-minute computation
check_release_begin(request) ==
    /\ gate.pc # "computed"
    /\ Len(deployments) < MaxDeployments
    /\ IF ~ServiceKnown(request.service_name)
       THEN gate' = [ pc |-> "returned", request |-> request, found |-> FALSE,
                      budget_remaining |-> 0,
                      rows_before |-> Len(deployments),
                      response |->
                        [ allowed |-> FALSE,
                          reason |-> <<"Service", request.service_name, "not found">>,
                          service_name |-> request.service_name,
                          deployment_id |-> request.deployment_id,
                          current_risk_level |-> "freeze",
                          current_burn_rate |-> 0,
                          error_budget_remaining |-> 0 ] ]
       ELSE gate' = [ pc |-> "computed", request |-> request, found |-> TRUE,
                      budget_remaining |->
                        compute_burn_rate(request.service_name, 60).error_budget_remaining,
                      rows_before |-> Len(deployments),
                      response |-> NoResponse ]
    /\ UNCHANGED <<now, services, slo_targets, metrics, burn_history, deployments,
                   alerts, evalr, coord, call, simulator>>

\* check_release, lines 74-113: the weighted burn rate over the metric store as
\* it is by then, the decision, the Deployment row and the response.  The commit
\* raises IntegrityError on a deployment_id that is stored already; nothing in
\* check_release or in the endpoint catches it.
check_release_end ==
    /\ gate.pc = "computed"
    /\ LET request == gate.request
           weighted == get_weighted_burn_rate(request.service_name)
           decision == _evaluate_gate(weighted[1], weighted[2], gate.budget_remaining,
                                      request.override, request.override_reason)
           row == DeploymentRow(request.service_name, request.deployment_id,
                                decision[1], decision[2], weighted[2])
       IN  IF UniqueViolation(row)
           THEN /\ gate' = [gate EXCEPT !.pc = "raised"]
                /\ UNCHANGED deployments
           ELSE /\ deployments' = Append(deployments, row)
                /\ gate' = [gate EXCEPT
                              !.pc = "returned",
                              !.response =
                                [ allowed |-> decision[1],
                                  reason |-> decision[2],
                                  service_name |-> request.service_name,
                                  deployment_id |-> request.deployment_id,
                                  current_risk_level |-> weighted[2],
                                  current_burn_rate |-> weighted[1],
                                  error_budget_remaining |-> gate.budget_remaining ]]
    /\ UNCHANGED <<now, services, slo_targets, metrics, burn_history, alerts,
                   evalr, coord, call, simulator>>


(***************************************************************************)
(* Alert Manager (services/alert_service.py).                              *)
(***************************************************************************)
\* severity of each template of ALERT_TEMPLATES
ALERT_TEMPLATES ==
    [ budget_exhausted |-> "emergency",
      budget_critical |-> "critical",
      burn_rate_high |-> "warning",
      risk_escalation |-> "warning",
      deployment_blocked |-> "info",
      recovery |-> "info" ]

\* What the names used on the mapped class Alert denote.  The JSON column is the
\* attribute alert_metadata; a declarative class reserves the attribute
\* "metadata" for the MetaData catalogue of its Base, which is no column and has
\* no contains() method.
AlertAttribute(attr) ==
    CASE attr = "alert_metadata" -> "Column(JSON)"
      [] attr = "metadata" -> "MetaData"
      [] OTHER -> "Column"

\* None in the nullable JSON column
NoMetadata == <<>>

\* the row Alert(...) adds: the keyword metadata= sets a plain instance
\* attribute, so the column alert_metadata keeps its NULL; title and message are
\* the template's (its key stands for them); _send_notification then marks the
\* row as sent
AlertRow(service_id, alert_type, channel) ==
    [ service_id |-> service_id,
      timestamp |-> now,
      severity |-> ALERT_TEMPLATES[alert_type],
      channel |-> channel,
      title |-> alert_type,
      alert_metadata |-> NoMetadata,
      sent |-> TRUE,
      acknowledged |-> FALSE ]

\* "AttributeError" when building the filter raises, else whether a row of the
\* service within the cooldown window carries the alert_type in its metadata
_is_in_cooldown(table, service_id, alert_type) ==
    IF AlertAttribute("metadata") # "Column(JSON)"
    THEN "AttributeError"
    ELSE IF \E i \in DOMAIN table :
               /\ table[i].service_id = service_id
               /\ table[i].timestamp >= now - ALERT_COOLDOWN_MINUTES
               /\ table[i].alert_metadata = <<"alert_type", alert_type>>
    THEN "cooldown"
    ELSE "clear"

\* create_alert on the alerts table: the outcome ("created", "None" or the
\* exception raised) and the table after it
create_alert(table, service_id, alert_type, channel) ==
    IF alert_type \notin DOMAIN ALERT_TEMPLATES
    THEN [outcome |-> "ValueError", table |-> table]
    ELSE LET cooldown == _is_in_cooldown(table, service_id, alert_type)
         IN  IF cooldown = "AttributeError"
             THEN [outcome |-> "AttributeError", table |-> table]
             ELSE IF cooldown = "cooldown"
             THEN [outcome |-> "None", table |-> table]
             ELSE [ outcome |-> "created",
                    table |-> Append(table, AlertRow(service_id, alert_type, channel)) ]

\* the alerts evaluate_and_alert attempts, in order, for a 60-minute computation
AlertsToAttempt(burn) ==
    ( IF burn.error_budget_remaining <= 0
      THEN << <<"budget_exhausted", "slack">> >>
      ELSE IF burn.error_budget_remaining < 1500
      THEN << <<"budget_critical", "slack">> >>
      ELSE <<>> )
    \o ( IF burn.burn_rate >= 2000
         THEN << <<"burn_rate_high", "ui">> >>
         ELSE <<>> )

\* the body of the try block: the attempts one after the other, until one
\* raises; the except clause logs it and the alerts returned so far are kept
RECURSIVE RunAttempts(_, _, _, _, _)
RunAttempts(attempts, service_id, table, returned, attempted) ==
    IF attempts = <<>>
    THEN [ table |-> table, returned |-> returned, attempted |-> attempted,
           raised |-> FALSE ]
    ELSE LET alert_type == Head(attempts)[1]
             res == create_alert(table, service_id, alert_type, Head(attempts)[2])
         IN  IF res.outcome \in {"AttributeError", "ValueError"}
             THEN [ table |-> table, returned |-> returned,
                    attempted |-> Append(attempted, alert_type), raised |-> TRUE ]
             ELSE RunAttempts(Tail(attempts), service_id, res.table,
                              IF res.outcome = "created"
                              THEN Append(returned, alert_type)
                              ELSE returned,
                              Append(attempted, alert_type))

\* a row of the alert type for the service is at most the cooldown old
RecentAlert(service_id, alert_type) ==
    \E i \in DOMAIN alerts :
        /\ alerts[i].service_id = service_id
        /\ alerts[i].title = alert_type
        /\ alerts[i].timestamp >= now - ALERT_COOLDOWN_MINUTES

NoCall == [op |-> "none", args |-> <<>>, result |-> <<>>]

EvalIdle ==
    [ pc |-> "idle", service_id |-> "", found |-> FALSE, burn_rate |-> 0,
      budget_remaining |-> 0, attempted |-> <<>>, returned |-> <<>>,
      raised |-> FALSE, rows_before |-> 0, recent_high |-> FALSE ]

\* evaluate_and_alert: the alerts table after the call and the record of the call
EvaluateAndAlert(service_id) ==
    IF ~ServiceKnown(service_id)
    THEN [ table |-> alerts,
           call |-> [EvalIdle EXCEPT !.pc = "done", !.service_id = service_id,
                                     !.rows_before = Len(alerts)] ]
    ELSE LET burn == compute_burn_rate(service_id, 60)
             attempts == AlertsToAttempt(burn)
             run == RunAttempts(attempts, service_id, alerts, <<>>, <<>>)
         IN  [ table |-> run.table,
               call |-> [ pc |-> "done", service_id |-> service_id, found |-> TRUE,
                          burn_rate |-> burn.burn_rate,
                          budget_remaining |-> burn.error_budget_remaining,
                          attempted |-> run.attempted,
                          returned |-> run.returned,
                          raised |-> run.raised,
                          rows_before |-> Len(alerts),
                          recent_high |-> RecentAlert(service_id, "burn_rate_high") ] ]

\* a call of evaluate_and_alert on its own
evaluate_and_alert(service_id) ==
    /\ LET res == EvaluateAndAlert(service_id)
       IN  /\ alerts' = res.table
           /\ evalr' = res.call
    /\ UNCHANGED <<now, services, slo_targets, metrics, burn_history, deployments,
                   gate, coord, call, simulator>>

(***************************************************************************)
(* The coordinator (main.py, periodic_computation).  One tick runs in one  *)
(* database session: the list of active services, then per service the     *)
(* three computations, each stored and committed, then the alert            *)
(* evaluation; an exception ends the work on that service only.  A          *)
(* statement of the session may fail (the database is locked by a writer of *)
(* another process, the connection drops): Faults are the outcomes.  After  *)
(* a failed flush the session refuses every statement until rollback() is   *)
(* called, and the coordinator never calls it.                              *)
(***************************************************************************)
\* the windows of the inner loop, in its order
CoordWindowsSwapped == <<60, 5, 1440>>

CoordWindows == <<5, 60, 1440>>

\* outcomes of store_burn_history's commit: it succeeds, it raises and leaves
\* the session usable, or the flush raises and leaves it needing a rollback
Faults == {"none", "error", "flush_error"}

\* signal: the server was told to stop; cancel: lifespan has called
\* task.cancel(); signalled_in: the service in work when the signal came
CoordIdle ==
    [ pc |-> "sleep", tick |-> 0, session |-> "ok", listed |-> {},
      remaining |-> {}, current |-> "", k |-> 1, base |-> 0,
      evaluated |-> {}, faulted |-> {},
      signal |-> FALSE, cancel |-> FALSE, signalled_in |-> "" ]

\* a tick starts: a new session, and the services that are active now; the
\* loop is followed for max_ticks rounds
TickBegin(max_ticks) ==
    /\ coord.pc = "sleep"
    /\ ~coord.cancel
    /\ coord.tick < max_ticks
    /\ LET active == {s.name : s \in {x \in services : x.is_active}}
       IN  coord' = [coord EXCEPT !.pc = "run", !.tick = coord.tick + 1,
                                 !.session = "ok", !.listed = active,
                                 !.remaining = active, !.current = "", !.k = 1,
                                 !.base = Len(burn_history),
                                 !.evaluated = {}, !.faulted = {}]
    /\ UNCHANGED <<now, services, slo_targets, metrics, burn_history, deployments,
                   alerts, gate, evalr, call, simulator>>

tick_begin == TickBegin(MaxTicks)

\* the outer loop takes the next service of the list (its order is the
\* database's)
tick_service ==
    /\ coord.pc = "run"
    /\ coord.current = ""
    /\ \E s \in coord.remaining :
          coord' = [coord EXCEPT !.current = s, !.k = 1,
                                 !.remaining = coord.remaining \ {s}]
    /\ UNCHANGED <<now, services, slo_targets, metrics, burn_history, deployments,
                   alerts, gate, evalr, call, simulator>>

\* one round of the inner loop: compute_burn_rate and store_burn_history for
\* the next window
tick_store(fault) ==
    /\ coord.pc = "run"
    /\ coord.current # ""
    /\ coord.k <= Len(CoordWindows)
    /\ IF coord.session = "failed"
       THEN \* the query of compute_burn_rate raises; except: next service
            /\ fault = "none"
            /\ coord' = [coord EXCEPT !.current = ""]
            /\ UNCHANGED burn_history
       ELSE IF fault = "none"
       THEN /\ burn_history' =
                   Append(burn_history,
                          HistoryRow(compute_burn_rate(coord.current,
                                                       CoordWindows[coord.k])))
            /\ coord' = [coord EXCEPT !.k = coord.k + 1]
       ELSE \* the commit raises; except: next service
            /\ coord' = [coord EXCEPT !.current = "",
                                      !.faulted = coord.faulted \cup {coord.current},
                                      !.session = IF fault = "flush_error"
                                                  THEN "failed" ELSE "ok"]
            /\ UNCHANGED burn_history
    /\ UNCHANGED <<now, services, slo_targets, metrics, deployments, alerts, gate,
                   evalr, call, simulator>>

\* after the inner loop: evaluate_and_alert for the service
tick_evaluate ==
    /\ coord.pc = "run"
    /\ coord.current # ""
    /\ coord.k > Len(CoordWindows)
    /\ IF coord.session = "failed"
       THEN /\ coord' = [coord EXCEPT !.current = ""]
            /\ UNCHANGED alerts
       ELSE /\ alerts' = EvaluateAndAlert(coord.current).table
            /\ coord' = [coord EXCEPT !.current = "",
                                      !.evaluated = coord.evaluated \cup {coord.current}]
    /\ UNCHANGED <<now, services, slo_targets, metrics, burn_history, deployments,
                   gate, evalr, call, simulator>>

\* the list is done: the session closes and the task sleeps for the interval
tick_sleep ==
    /\ coord.pc = "run"
    /\ coord.current = ""
    /\ coord.remaining = {}
    /\ now + COMPUTATION_INTERVAL_MINUTES <= MaxNow
    /\ now' = now + COMPUTATION_INTERVAL_MINUTES
    /\ coord' = [coord EXCEPT !.pc = "sleep"]
    /\ UNCHANGED <<services, slo_targets, metrics, burn_history, deployments,
                   alerts, gate, evalr, call, simulator>>

\* the steps of the task
TickSteps ==
    \/ tick_begin
    \/ tick_service
    \/ \E fault \in Faults : tick_store(fault)
    \/ tick_evaluate
    \/ tick_sleep

(***************************************************************************)
(* Shutdown (main.py, lifespan).  The body of a tick has no await: the     *)
(* event loop, and with it lifespan's code after the yield, runs only      *)
(* while the task is suspended in asyncio.sleep (or has not started yet).  *)
(* task.cancel() makes the task's next step raise CancelledError at that   *)
(* await.                                                                   *)
(***************************************************************************)
\* what becomes of an exception raised by the await of asyncio.sleep: the
\* statement stands after both try statements of the loop, no handler
\* encloses it
CancelledAtSleepCaught == "caught"

CancelledAtSleep == "propagates"

\* the server receives the signal to stop, at any moment
shutdown_signal ==
    /\ ~coord.signal
    /\ coord.pc # "done"
    /\ coord' = [coord EXCEPT !.signal = TRUE, !.signalled_in = coord.current]
    /\ UNCHANGED <<now, services, slo_targets, metrics, burn_history, deployments,
                   alerts, gate, evalr, call, simulator>>

\* lifespan after the yield: task.cancel(), then await task
lifespan_cancel ==
    /\ coord.signal
    /\ ~coord.cancel
    /\ coord.pc = "sleep"
    /\ coord' = [coord EXCEPT !.cancel = TRUE]
    /\ UNCHANGED <<now, services, slo_targets, metrics, burn_history, deployments,
                   alerts, gate, evalr, call, simulator>>

\* the task's next step: CancelledError is thrown at the await; it ends the
\* task unless a handler of the loop catches it, and then the loop goes on
task_cancelled ==
    /\ coord.cancel
    /\ coord.pc = "sleep"
    /\ coord' = IF CancelledAtSleep = "propagates"
                THEN [coord EXCEPT !.pc = "done"]
                ELSE [coord EXCEPT !.cancel = FALSE, !.signal = FALSE]
    /\ UNCHANGED <<now, services, slo_targets, metrics, burn_history, deployments,
                   alerts, gate, evalr, call, simulator>>

(***************************************************************************)
(* SLO targets (api/endpoints/slo.py, schemas/schemas.py).                 *)
(***************************************************************************)
\* the Field constraints of SLOTargetBase on the fields that are modelled:
\* 0 <= target_value <= 100 and 1 <= window_days <= 365
SLOTargetBaseValid(target) ==
    /\ target.target_value >= 0
    /\ target.target_value <= 1000
    /\ target.window_days >= 1
    /\ target.window_days <= 365

\* SLOTargetUpdate declares its fields Optional without constraints
SLOTargetUpdateValid(update) == TRUE

\* the bodies of POST /slo/targets
SLOTargetCreates ==
    [ service_id : ServiceNames, name : {"availability"},
      target_value : TargetValues, window_days : WindowDays ]

\* the bodies of PATCH /slo/targets/{id}: the fields that are set
SLOTargetUpdates ==
    { <<"target_value", v>> : v \in TargetValues }
        \cup { <<"window_days", w>> : w \in WindowDays }
        \cup { <<"is_active", b>> : b \in BOOLEAN }

\* POST /slo/targets: 422 from the schema, 404 for an absent service, else
\* the row is added as it came
create_slo_target(target) ==
    /\ Cardinality(slo_targets) < MaxTargets
    /\ IF ~SLOTargetBaseValid(target)
       THEN /\ call' = [op |-> "create_slo_target", args |-> target, result |-> 422]
            /\ UNCHANGED slo_targets
       ELSE IF ~ServiceKnown(target.service_id)
       THEN /\ call' = [op |-> "create_slo_target", args |-> target, result |-> 404]
            /\ UNCHANGED slo_targets
       ELSE /\ slo_targets' = slo_targets \cup
                   { [ id |-> Cardinality(slo_targets) + 1,
                       service_id |-> target.service_id,
                       name |-> target.name,
                       target_value |-> target.target_value,
                       window_days |-> target.window_days,
                       burn_rate_threshold |-> 1000,
                       critical_burn_rate |-> 2000,
                       is_active |-> TRUE ] }
            /\ call' = [op |-> "create_slo_target", args |-> target, result |-> 201]
    /\ UNCHANGED <<now, services, metrics, burn_history, deployments, alerts, gate,
                   evalr, coord, simulator>>

\* the row after setattr of the field that is set
UpdatedTarget(target, update) ==
    CASE update[1] = "target_value" -> [target EXCEPT !.target_value = update[2]]
      [] update[1] = "window_days" -> [target EXCEPT !.window_days = update[2]]
      [] update[1] = "is_active" -> [target EXCEPT !.is_active = update[2]]

\* PATCH /slo/targets/{id}: 422 from the schema, 404 for an absent id, else
\* every field that is set is written
update_slo_target(target_id, update) ==
    /\ IF ~SLOTargetUpdateValid(update)
       THEN /\ call' = [ op |-> "update_slo_target", args |-> <<target_id, update>>,
                         result |-> 422 ]
            /\ UNCHANGED slo_targets
       ELSE IF ~\E t \in slo_targets : t.id = target_id
       THEN /\ call' = [ op |-> "update_slo_target", args |-> <<target_id, update>>,
                         result |-> 404 ]
            /\ UNCHANGED slo_targets
       ELSE LET target == CHOOSE t \in slo_targets : t.id = target_id
            IN  /\ slo_targets' = (slo_targets \ {target})
                                      \cup {UpdatedTarget(target, update)}
                /\ call' = [ op |-> "update_slo_target",
                             args |-> <<target_id, update>>, result |-> 200 ]
    /\ UNCHANGED <<now, services, metrics, burn_history, deployments, alerts, gate,
                   evalr, coord, simulator>>

(***************************************************************************)
(* The engine's functions called on their own.                             *)
(***************************************************************************)
\* compute_burn_rate that answers for an absent service id as well
ComputeBurnRateLenient(service_id, window_minutes) ==
    [raised |-> "", value |-> compute_burn_rate(service_id, window_minutes)]

\* compute_burn_rate with any service id: ValueError for an absent one
ComputeBurnRate(service_id, window_minutes) ==
    IF ~ServiceKnown(service_id)
    THEN [raised |-> "ValueError", value |-> <<>>]
    ELSE [raised |-> "", value |-> compute_burn_rate(service_id, window_minutes)]

\* a call of _classify_risk with a burn rate (thousandths) and a consumed
\* budget (hundredths of a percent)
classify(b, c) ==
    /\ call' = [ op |-> "_classify_risk", args |-> <<b, c>>,
                 result |-> _classify_risk(Rat(b, 1000), Rat(c, 100)) ]
    /\ UNCHANGED <<now, services, slo_targets, metrics, burn_history, deployments,
                   alerts, gate, evalr, coord, simulator>>

\* two calls of _classify_risk, side by side
classify_two(b1, c1, b2, c2) ==
    /\ call' = [ op |-> "_classify_risk twice", args |-> <<b1, c1, b2, c2>>,
                 result |-> << _classify_risk(Rat(b1, 1000), Rat(c1, 100)),
                               _classify_risk(Rat(b2, 1000), Rat(c2, 100)) >> ]
    /\ UNCHANGED <<now, services, slo_targets, metrics, burn_history, deployments,
                   alerts, gate, evalr, coord, simulator>>

\* a call of get_weighted_burn_rate for a service that exists; the result
\* keeps the three computations beside the pair that is returned
weighted(service_id) ==
    /\ ServiceKnown(service_id)
    /\ call' = [ op |-> "get_weighted_burn_rate", args |-> <<service_id>>,
                 result |-> [ computations |-> compute_all_windows(service_id),
                              value |-> get_weighted_burn_rate(service_id) ] ]
    /\ UNCHANGED <<now, services, slo_targets, metrics, burn_history, deployments,
                   alerts, gate, evalr, coord, simulator>>

\* a call of compute_burn_rate; it only reads.  Beside the outcome the record
\* keeps what the call found: whether the service existed and the requests
\* of its window
compute(service_id, window_minutes) ==
    /\ LET outcome == ComputeBurnRate(service_id, window_minutes)
           rows == WindowRows(service_id, window_minutes)
       IN  call' = [ op |-> "compute_burn_rate",
                     args |-> <<service_id, window_minutes>>,
                     result |-> [ raised |-> outcome.raised,
                                  value |-> outcome.value,
                                  known |-> ServiceKnown(service_id),
                                  requests |-> SumOver([m \in rows |->
                                      m.total_requests * metrics[m]], rows) ] ]
    /\ UNCHANGED <<now, services, slo_targets, metrics, burn_history, deployments,
                   alerts, gate, evalr, coord, simulator>>

(***************************************************************************)
(* Forecast Module (services/forecast_service.py).  Burn rates are in      *)
(* thousandths, hours in hundredths, the slope is an exact fraction.  An    *)
(* Optional value is a sequence: <<>> for None, <<v>> for v.               *)
(***************************************************************************)
\* round(a * k / d), ties to even, for 0 <= a <= 10000; the product is
\* taken in parts that stay within 32-bit integers
MulDivRound(a, k, d) ==
    LET whole == a * (k \div d)
        rest == k % d
        hi == (a \div 100) * rest
        lo == (a % 100) * rest
        hi100 == 100 * (hi % d)
        sum == (hi100 % d) + (lo % d)
        q == whole + 100 * (hi \div d) + (hi100 \div d) + (lo \div d) + (sum \div d)
        r == sum % d
    IN  IF 2 * r < d THEN q
        ELSE IF 2 * r > d THEN q + 1
        ELSE IF q % 2 = 0 THEN q ELSE q + 1

\* window_days of the active "availability" target of the service, or 30
TargetWindowDays(service_id) ==
    LET found == {t \in slo_targets : /\ t.service_id = service_id
                                      /\ t.name = "availability"
                                      /\ t.is_active}
    IN  IF found = {} THEN 30
        ELSE (CHOOSE t \in found : \A u \in found : t.id <= u.id).window_days

\* the rows of the trend query: this service, the 1h window, the last 6 hours
TrendRows(service_id) ==
    {i \in DOMAIN burn_history : /\ burn_history[i].service_id = service_id
                                 /\ burn_history[i].window_minutes = 60
                                 /\ burn_history[i].timestamp >= now - 360}

\* the cutoffs of the trend direction (0.1 and -0.1 per hour), in thousandths
TrendIncreasingAbove == 100
TrendDecreasingBelow == -100

\* _calculate_trend: None below three rows, else the slope of the least
\* squares line through (hours since the first row, burn rate) and its
\* direction.  The slope is slope.num / slope.den thousandths per hour; with all rows
\* at one instant the division is 0/0 and the slope is nan, which compares
\* False with everything
_calculate_trend(service_id) ==
    LET I == TrendRows(service_id)
        n == Cardinality(I)
        base_time == CHOOSE t \in {burn_history[i].timestamp : i \in I} :
                        \A i \in I : t <= burn_history[i].timestamp
        x == [i \in I |-> burn_history[i].timestamp - base_time]
        y == [i \in I |-> burn_history[i].burn_rate]
        sx == SumOver(x, I)
        sy == SumOver(y, I)
        sxy == SumOver([i \in I |-> x[i] * y[i]], I)
        sxx == SumOver([i \in I |-> x[i] * x[i]], I)
        \* thousandths per minute
        num == n * sxy - sx * sy
        den == n * sxx - sx * sx
        \* per hour
        slope == Rat(60 * num, den)
        nan == den = 0
    IN  IF n < 3 THEN <<>>
        ELSE << [ slope |-> slope,
                  nan |-> nan,
                  direction |->
                      IF ~nan /\ slope.num > TrendIncreasingAbove * slope.den
                      THEN "increasing"
                      ELSE IF ~nan /\ slope.num < TrendDecreasingBelow * slope.den
                      THEN "decreasing"
                      ELSE "stable" ] >>

\* if trend_slope > 0
ProjectsForward(trend) == ~trend.nan /\ trend.slope.num > 0

\* the hours are not scaled by the remaining share
TimeToExhaustionWholeWindow(remaining_budget, window_hours, burn) ==
    MulDivRound(10000, window_hours * 10 * burn.den, burn.num)

\* round((remaining_budget / 100) * window_hours / burn_rate_for_forecast, 2)
\* in hundredths of an hour; burn is a fraction of thousandths
TimeToExhaustion(remaining_budget, window_hours, burn) ==
    MulDivRound(remaining_budget, window_hours * 10 * burn.den, burn.num)

\* forecast_exhaustion for a service that exists, with use_historical_trend;
\* the confidence and the message are left out
forecast_exhaustion(service_id) ==
    LET current_burn == compute_burn_rate(service_id, 60)
        window_hours == TargetWindowDays(service_id) * 24
        trend_data == _calculate_trend(service_id)
        \* thousandths, as a fraction
        burn_rate_for_forecast ==
            IF trend_data # <<>> /\ ProjectsForward(trend_data[1])
            THEN Rat(current_burn.burn_rate * trend_data[1].slope.den
                         + trend_data[1].slope.num,
                     trend_data[1].slope.den)
            ELSE Rat(current_burn.burn_rate, 1)
        remaining_budget == current_burn.error_budget_remaining
        positive == burn_rate_for_forecast.num > 0 /\ remaining_budget > 0
        time_to_exhaustion ==
            IF positive
            THEN << TimeToExhaustion(remaining_budget, window_hours,
                                     burn_rate_for_forecast) >>
            ELSE IF remaining_budget <= 0 THEN <<0>>
            ELSE <<>>
        exhaustion_time ==
            IF positive
            THEN IF time_to_exhaustion[1] > 0
                 THEN << [utcnow |-> now, hours |-> time_to_exhaustion[1]] >>
                 ELSE <<>>
            ELSE IF remaining_budget <= 0 THEN << [utcnow |-> now, hours |-> 0] >>
            ELSE <<>>
    IN  [ computed_at |-> now,
          current_burn_rate |-> current_burn.burn_rate,
          error_budget_remaining |-> remaining_budget,
          window_hours |-> window_hours,
          trend |-> trend_data,
          burn_rate_for_forecast |-> burn_rate_for_forecast,
          time_to_exhaustion_hours |-> time_to_exhaustion,
          projected_exhaustion_time |-> exhaustion_time,
          burn_rate_trend |-> IF trend_data = <<>> THEN "stable"
                              ELSE trend_data[1].direction ]

\* GET /forecast/{service_name}: 404 for a name that is not registered
forecast(service_name) ==
    /\ ServiceKnown(service_name)
    /\ call' = [ op |-> "forecast_exhaustion", args |-> <<service_name>>,
                 result |-> forecast_exhaustion(service_name) ]
    /\ UNCHANGED <<now, services, slo_targets, metrics, burn_history, deployments,
                   alerts, gate, evalr, coord, simulator>>

(***************************************************************************)
(* Metrics simulator (services/metrics_service.py, MetricsSimulator).      *)
(* Timestamps are minutes; the random draws of a snapshot are its inputs.  *)
(* The request counts, error counts and latencies of the snapshots are not *)
(* modelled, only whether a snapshot is generated as an incident.          *)
(***************************************************************************)
\* __init__
NewSimulator ==
    [ _incident_services |-> {}, _incident_start_times |-> [n \in {} |-> 0] ]

\* values of random.randint(300, 1800), an earlier end among them
IncidentSecondsFrom60 == {60, 1000, 1800}

\* values of random.randint(300, 1800), seconds: the ends and one between
IncidentSeconds == {300, 1000, 1800}

\* _generate_service_snapshot for one service: the simulator's entry for the
\* name afterwards and whether the snapshot is an incident's.  starts is
\* random.random() < 0.01 * chaos_level, seconds is the randint
ServiceSnapshot(sim, name, timestamp, starts, seconds) ==
    LET was == name \in sim._incident_services
        started == ~was /\ starts
        is_incident == was \/ started
        timed == is_incident /\ (started \/ name \in DOMAIN sim._incident_start_times)
        start == IF started THEN timestamp
                 ELSE IF name \in DOMAIN sim._incident_start_times
                 THEN sim._incident_start_times[name] ELSE 0
        incident_duration == (timestamp - start) * 60
        ended == timed /\ incident_duration > seconds
    IN  [ is_incident |-> is_incident /\ ~ended,
          started |-> started,
          in_services |-> is_incident /\ ~ended,
          timed |-> (timed /\ ~ended)
                    \/ (~is_incident /\ name \in DOMAIN sim._incident_start_times),
          start |-> start ]

\* generate_snapshot(timestamp): every service in turn; each touches only
\* its own entries
generate_snapshot(timestamp, starts, seconds) ==
    /\ LET snap == [n \in SimServices |->
                       ServiceSnapshot(simulator, n, timestamp, starts[n], seconds[n])]
           others == simulator._incident_services \ SimServices
           kept == {n \in SimServices : snap[n].in_services} \cup others
           timed == {n \in SimServices : snap[n].timed}
                        \cup (DOMAIN simulator._incident_start_times \ SimServices)
       IN  /\ simulator' =
                 [ _incident_services |-> kept,
                   _incident_start_times |->
                       [n \in timed |-> IF n \in SimServices THEN snap[n].start
                                        ELSE simulator._incident_start_times[n]] ]
           /\ call' = [ op |-> "generate_snapshot", args |-> <<timestamp>>,
                        result |-> [ before |-> simulator,
                                     started |-> [n \in SimServices |-> snap[n].started],
                                     is_incident |->
                                         [n \in SimServices |-> snap[n].is_incident] ] ]
    /\ UNCHANGED <<now, services, slo_targets, metrics, burn_history, deployments,
                   alerts, gate, evalr, coord>>

\* inject_incident
inject_incident(service_name) ==
    /\ simulator' =
          [ _incident_services |-> simulator._incident_services \cup {service_name},
            _incident_start_times |->
                [n \in DOMAIN simulator._incident_start_times \cup {service_name} |->
                    IF n = service_name THEN now
                    ELSE simulator._incident_start_times[n]] ]
    /\ call' = [ op |-> "inject_incident", args |-> <<service_name>>,
                 result |-> [before |-> simulator] ]
    /\ UNCHANGED <<now, services, slo_targets, metrics, burn_history, deployments,
                   alerts, gate, evalr, coord>>

\* resolve_incident
resolve_incident(service_name) ==
    /\ simulator' =
          [ _incident_services |-> simulator._incident_services \ {service_name},
            _incident_start_times |->
                [n \in DOMAIN simulator._incident_start_times \ {service_name} |->
                    simulator._incident_start_times[n]] ]
    /\ call' = [ op |-> "resolve_incident", args |-> <<service_name>>,
                 result |-> [before |-> simulator] ]
    /\ UNCHANGED <<now, services, slo_targets, metrics, burn_history, deployments,
                   alerts, gate, evalr, coord>>

(***************************************************************************)
(* Initial state and specifications.                                       *)
(***************************************************************************)

Init ==
    /\ now = 0
    /\ services = {}
    /\ slo_targets = {}
    /\ metrics = EmptyBag
    /\ burn_history = <<>>
    /\ deployments = <<>>
    /\ alerts = <<>>
    /\ gate = GateIdle
    /\ evalr = EvalIdle
    /\ coord = CoordIdle
    /\ call = NoCall
    /\ simulator = NewSimulator

\* the release gate, with registration around it and ingestion (by another
\* worker) around and between its two reads of the metric store
NextGate ==
    \/ \E n \in GateNames : create_service(n)
    \/ \E b \in Batches(GateNames, GateKinds, Ages) : ingest_metrics(b)
    \/ \E r \in Requests : check_release_begin(r)
    \/ check_release_end

SpecGate == Init /\ [][NextGate]_vars

\* the alert evaluation, with registration, ingestion and the clock around it
NextAlert ==
    \/ \E d \in Delays : Tick(d)
    \/ \E n \in GateNames : create_service(n)
    \/ \E b \in Batches(GateNames, AlertKinds, Ages) : ingest_metrics(b)
    \/ \E n \in GateNames : evaluate_and_alert(n)

SpecAlert == Init /\ [][NextAlert]_vars

\* the coordinator, with registration, removal and ingestion beside it
NextTick ==
    \/ \E n \in ServiceNames : create_service(n)
    \/ \E n \in ServiceNames : delete_service(n)
    \/ \E b \in Batches(GateNames, TickKinds, {0}) : ingest_metrics(b)
    \/ tick_begin
    \/ tick_service
    \/ \E fault \in Faults : tick_store(fault)
    \/ tick_evaluate
    \/ tick_sleep

SpecTick == Init /\ [][NextTick]_vars

\* the computations, with the availability target changed and snapshots
\* ingested around them, and the coordinator storing what it computes
NextBurn ==
    \/ \E n \in GateNames : create_service(n)
    \/ \E b \in Batches(GateNames, BurnKinds, {0, 30}) : ingest_metrics(b)
    \/ \E v \in {1000, 1005} : update_slo_target(1, <<"target_value", v>>)
    \/ \E n \in ServiceNames, w \in Windows : compute(n, w)
    \/ tick_begin
    \/ tick_service
    \/ tick_store("none")
    \/ tick_evaluate
    \/ tick_sleep

SpecBurn == Init /\ [][NextBurn]_vars

\* the forecast, over the history the coordinator has stored while
\* snapshots came in and time passed
NextForecast ==
    \/ \E d \in Delays : Tick(d)
    \/ \E n \in GateNames : create_service(n)
    \/ \E b \in Batches(GateNames, ForecastKinds, {0}) : ingest_metrics(b)
    \/ TickBegin(MaxForecastTicks)
    \/ tick_service
    \/ tick_store("none")
    \/ tick_evaluate
    \/ tick_sleep
    \/ \E n \in GateNames : forecast(n)

SpecForecast == Init /\ [][NextForecast]_vars

\* one simulator: snapshots at given timestamps, incidents injected and
\* resolved by hand, and the clock
NextSimulator ==
    \/ \E d \in Delays : Tick(d)
    \/ \E timestamp \in SnapshotTimes \cup {now},
          starts \in [SimServices -> BOOLEAN],
          seconds \in [SimServices -> IncidentSeconds] :
              generate_snapshot(timestamp, starts, seconds)
    \/ \E n \in SimServices : inject_incident(n)
    \/ \E n \in SimServices : resolve_incident(n)

SpecSimulator == Init /\ [][NextSimulator]_vars

\* the release gate while nothing is ingested between the reads of one call
NextQuiet ==
    \/ \E n \in GateNames : create_service(n)
    \/ /\ gate.pc # "computed"
       /\ \E b \in Batches(GateNames, QuietKinds, Ages) : ingest_metrics(b)
    \/ \E r \in Requests : check_release_begin(r)
    \/ check_release_end

SpecQuiet == Init /\ [][NextQuiet]_vars

\* the weighted burn rate over what has been ingested
NextWeighted ==
    \/ \E n \in GateNames : create_service(n)
    \/ \E b \in Batches(GateNames, GateKinds \cup AlertKinds, Ages) : ingest_metrics(b)
    \/ \E n \in GateNames : weighted(n)

SpecWeighted == Init /\ [][NextWeighted]_vars

\* registration and ingestion, snapshots the schema refuses among them
NextIngest ==
    \/ \E n \in ServiceNames : create_service(n)
    \/ \E b \in Batches(ServiceNames, IngestKinds, {0, 30}) : ingest_metrics(b)

SpecIngest == Init /\ [][NextIngest]_vars

\* ingestion by several workers: one of them in two steps, the others between
NextRace ==
    \/ \E b \in Batches(ServiceNames, {<<10, 5>>, <<10, 0>>}, {0, 30}) : ingest_metrics(b)
    \/ \E b \in Batches(ServiceNames, {<<10, 5>>, <<10, 0>>}, {0, 30}) : ingest_begin(b)
    \/ ingest_end

SpecRace == Init /\ [][NextRace]_vars

\* the SLO target endpoints, with registration and ingestion
NextSlo ==
    \/ \E n \in GateNames : create_service(n)
    \/ \E b \in Batches(GateNames, {<<10, 5>>}, {0}) : ingest_metrics(b)
    \/ \E t \in SLOTargetCreates : create_slo_target(t)
    \/ \E id \in 1..MaxTargets, u \in SLOTargetUpdates : update_slo_target(id, u)

SpecSlo == Init /\ [][NextSlo]_vars

\* the classifier on its own
NextClassify ==
    \/ \E b \in BurnRates, c \in Consumed : classify(b, c)
    \/ \E b1, b2 \in BurnRates, c1, c2 \in Consumed : classify_two(b1, c1, b2, c2)

SpecClassify == Init /\ [][NextClassify]_vars

\* the coordinator and the shutdown of the application
NextStop ==
    \/ \E n \in ServiceNames : create_service(n)
    \/ TickSteps
    \/ shutdown_signal
    \/ lifespan_cancel
    \/ task_cancelled

\* the event loop runs whatever is ready: the task's steps and lifespan's
SpecStop ==
    /\ Init /\ [][NextStop]_vars
    /\ WF_vars(TickSteps)
    /\ WF_vars(lifespan_cancel)
    /\ WF_vars(task_cancelled)


(***************************************************************************)
(* Release Gate: claims.                                                   *)
(***************************************************************************)
\* the call in flight has returned a response to its caller
Returned == gate.pc = "returned"
\* the call found its service and returned
ReturnedKnown == Returned /\ gate.found
\* the request carries a valid override
ValidOverride == gate.request.override /\ Truthy(gate.request.override_reason)
\* the call wrote exactly one row, the last of the table
WroteOneRow == Len(deployments) = gate.rows_before + 1
LastRow == deployments[Len(deployments)]

\* C1: every check_release invocation, for a known or an unknown service,
\* persists exactly one new Deployment record whose allowed flag is the
\* response's.
C1_EveryCallPersistsOneRecord ==
    Returned => /\ WroteOneRow
                /\ LastRow.allowed = gate.response.allowed

\* C2: for a known service with composite risk FREEZE or DANGER and no valid
\* override (override = true with a missing or empty reason is no override),
\* check_release returns allowed = false and persists a rejected Deployment;
\* for FREEZE the reason contains "FREEZE".
C2_BlockedWithoutValidOverride ==
    ( /\ ReturnedKnown
      /\ gate.response.current_risk_level \in {"freeze", "danger"}
      /\ ~ValidOverride )
    => /\ gate.response.allowed = FALSE
       /\ WroteOneRow
       /\ LastRow.status = "rejected"
       /\ LastRow.allowed = FALSE
       /\ gate.response.current_risk_level = "freeze"
            => Contains(gate.response.reason, "FREEZE")

C2_Witness ==
    /\ ReturnedKnown
    /\ gate.response.current_risk_level = "freeze"
    /\ gate.request.override
    /\ gate.request.override_reason = ""
    /\ gate.response.allowed = FALSE
    /\ LastRow.status = "rejected"

C4_ThresholdsBlockWhateverOverride ==
    ( /\ ReturnedKnown
      /\ gate.response.current_risk_level \in {"safe", "observe"}
      /\ \/ gate.response.current_burn_rate > RELEASE_GATE_BURN_RATE_THRESHOLD
         \/ 10000 - gate.response.error_budget_remaining
                > RELEASE_GATE_BUDGET_THRESHOLD )
    => /\ gate.response.allowed = FALSE
       /\ WroteOneRow
       /\ LastRow.status = "rejected"

C4_Witness ==
    /\ ReturnedKnown
    /\ gate.response.current_risk_level \in {"safe", "observe"}
    /\ 10000 - gate.response.error_budget_remaining > RELEASE_GATE_BUDGET_THRESHOLD
    /\ ValidOverride
    /\ gate.response.allowed = FALSE

\* C5: every Deployment record has allowed = true exactly when status =
\* approved (and status = rejected otherwise), and blocked_reason is null
\* exactly when allowed = true and otherwise is the decision reason.
C5_DeploymentRecordConsistent ==
    /\ \A i \in DOMAIN deployments :
          /\ deployments[i].allowed <=> deployments[i].status = "approved"
          /\ ~deployments[i].allowed <=> deployments[i].status = "rejected"
          /\ deployments[i].blocked_reason = NoReason <=> deployments[i].allowed
    /\ (ReturnedKnown /\ ~gate.response.allowed)
          => LastRow.blocked_reason = gate.response.reason

C5_Witness ==
    /\ \E i \in DOMAIN deployments :
          deployments[i].allowed /\ deployments[i].blocked_reason = NoReason
    /\ \E i \in DOMAIN deployments :
          ~deployments[i].allowed /\ deployments[i].blocked_reason # NoReason

\* C6: a failure inside check_release (a computation or a persistence call
\* raising, here the commit of a deployment_id stored already) still yields a block decision with reason "internal error" and a
\* persisted rejected Deployment; nothing is raised to the caller.
C6_FailureBecomesBlock ==
    gate.pc = "raised"
    => /\ gate.response.allowed = FALSE
       /\ Contains(gate.response.reason, "internal error")
       /\ WroteOneRow
       /\ LastRow.status = "rejected"

(***************************************************************************)
(* Claims about the Alert Manager.                                         *)
(***************************************************************************)
\* the alerts of a type that the last evaluate_and_alert call persisted
PersistedByCall(alert_type) ==
    { i \in DOMAIN alerts : /\ i > evalr.rows_before
                            /\ alerts[i].service_id = evalr.service_id
                            /\ alerts[i].title = alert_type }

\* C8: a call of evaluate_and_alert for a service whose 60-minute burn rate
\* is at least 2.0, with no burn_rate_high alert of the service inside the
\* cooldown window, persists exactly one burn_rate_high alert.
C8_HighBurnPersistsOneAlert ==
    ( /\ evalr.pc = "done"
      /\ evalr.found
      /\ evalr.burn_rate >= 2000
      /\ ~evalr.recent_high )
    => Cardinality(PersistedByCall("burn_rate_high")) = 1

(***************************************************************************)
(* Claims about the coordinator.                                           *)
(***************************************************************************)
\* the windows of the Burn-History rows appended for a service in the tick
TickRows(service_id) ==
    LET rows == SubSeq(burn_history, coord.base + 1, Len(burn_history))
        mine == SelectSeq(rows, LAMBDA r : r.service_id = service_id)
    IN  [i \in DOMAIN mine |-> mine[i].window_minutes]

IsPrefix(s, t) ==
    /\ Len(s) <= Len(t)
    /\ \A i \in DOMAIN s : s[i] = t[i]

\* C9: within a tick the Burn-History rows appended for a service are those
\* of the windows 5, 60 and 1440 in this order, and the alert evaluation of
\* the service has been invoked only once all three are appended.
C9_RowsInOrderThenEvaluation ==
    \A s \in ServiceNames :
        /\ IsPrefix(TickRows(s), <<5, 60, 1440>>)
        /\ s \in coord.evaluated => TickRows(s) = <<5, 60, 1440>>

\* both services of a tick have their three rows and their evaluation
C9_Witness ==
    /\ coord.listed = ServiceNames
    /\ coord.evaluated = ServiceNames
    /\ \A s \in ServiceNames : TickRows(s) = <<5, 60, 1440>>

\* C10: when the tick is over, every service of the tick other than those
\* whose own processing raised has its three Burn-History rows and its alert
\* evaluation.
C10_OtherServicesComplete ==
    (coord.pc = "sleep" /\ coord.tick > 0)
    => \A s \in coord.listed \ coord.faulted :
          /\ TickRows(s) = <<5, 60, 1440>>
          /\ s \in coord.evaluated

\* the work on a service was neither ended by an exception of its own nor
\* refused by a session left failed
Undisturbed(service_id) ==
    /\ service_id \notin coord.faulted
    /\ coord.session = "ok"

\* C11: once shutdown is signalled the background task eventually ends; no
\* tick starts after the cancellation; and the service that was in work when
\* the signal came has had its three rows and its alert evaluation, unless an
\* exception ended its processing.
C11_ShutdownStopsCoordinator ==
    /\ coord.signal ~> (coord.pc = "done")
    /\ [][coord.cancel => coord'.tick = coord.tick]_vars
    /\ [](( /\ coord.pc = "done"
            /\ coord.signalled_in # ""
            /\ Undisturbed(coord.signalled_in) )
          => /\ TickRows(coord.signalled_in) = <<5, 60, 1440>>
             /\ coord.signalled_in \in coord.evaluated)

\* the signal came while a service was in work; the task has ended and the
\* service has all three rows and its evaluation
C11_Witness ==
    /\ coord.pc = "done"
    /\ coord.signalled_in # ""
    /\ TickRows(coord.signalled_in) = <<5, 60, 1440>>
    /\ coord.signalled_in \in coord.evaluated

(***************************************************************************)
(* Claims about the Burn-Rate Engine.                                      *)
(***************************************************************************)
\* a computation returned by the last call of compute_burn_rate
Computed ==
    /\ call.op = "compute_burn_rate"
    /\ call.result.raised = ""

\* both budget percentages lie in [0, 100] and add up to 100
BudgetInRange(r) ==
    /\ r.error_budget_consumed >= 0
    /\ r.error_budget_consumed <= 10000
    /\ r.error_budget_remaining >= 0
    /\ r.error_budget_remaining <= 10000
    /\ r.error_budget_consumed + r.error_budget_remaining = 10000

LevelByBurn(b) ==
    IF b >= 3000 THEN 3 ELSE IF b >= 2000 THEN 2 ELSE IF b >= 1500 THEN 1 ELSE 0

\* the level of a consumed budget by the cutoffs 70 / 85 / 95
LevelByBudget(c) ==
    IF c >= 9500 THEN 3 ELSE IF c >= 8500 THEN 2 ELSE IF c >= 7000 THEN 1 ELSE 0

LevelOf(risk) ==
    CASE risk = "safe" -> 0 [] risk = "observe" -> 1
      [] risk = "danger" -> 2 [] risk = "freeze" -> 3

C14_ClassifierMonotone ==
    ( /\ call.op = "_classify_risk twice"
      /\ call.args[1] <= call.args[3]
      /\ call.args[2] <= call.args[4] )
    => LevelOf(call.result[1]) <= LevelOf(call.result[2])

\* a rise of the burn rate alone that raises the level
C14_Witness ==
    /\ call.op = "_classify_risk twice"
    /\ call.args[1] < call.args[3]
    /\ call.args[2] = call.args[4]
    /\ LevelOf(call.result[1]) < LevelOf(call.result[2])

\* the distance of two integers
Dist(a, b) == IF a >= b THEN a - b ELSE b - a

\* C15: get_weighted_burn_rate returns the mean of the 5-, 60- and
\* 1440-minute burn rates with weights 0.3 / 0.4 / 0.3 (rounded to three
\* places) and the most severe of the three risk levels, which is at least as
\* severe as each window's.
C15_WeightedMeanAndWorstRisk ==
    call.op = "get_weighted_burn_rate"
    => LET cs == call.result.computations
           value == call.result.value
       IN  /\ Len(cs) = 3
           /\ <<cs[1].window_minutes, cs[2].window_minutes, cs[3].window_minutes>>
                  = <<5, 60, 1440>>
           /\ Dist(10 * value[1],
                   3 * cs[1].burn_rate + 4 * cs[2].burn_rate + 3 * cs[3].burn_rate) <= 5
           /\ \E k \in 1..3 : value[2] = cs[k].risk_level
           /\ \A k \in 1..3 : LevelOf(value[2]) >= LevelOf(cs[k].risk_level)

\* the windows differ in burn rate and in risk
C15_Witness ==
    /\ call.op = "get_weighted_burn_rate"
    /\ call.result.computations[1].burn_rate # call.result.computations[2].burn_rate
    /\ call.result.computations[1].burn_rate > 0
    /\ \E k \in 1..3 :
          LevelOf(call.result.value[2]) > LevelOf(call.result.computations[k].risk_level)

\* C16: compute_burn_rate for a known service without requests inside the
\* window raises nothing and returns burn rate 0, consumed 0, remaining 100
\* and SAFE; for an absent service id it raises the unknown-service error, and
\* the call writes to no table.
C16_NoDataIsNeutralUnknownRaises ==
    /\ [](call.op = "compute_burn_rate"
          => /\ ~call.result.known => call.result.raised = "ValueError"
             /\ (call.result.known /\ call.result.requests = 0)
                => /\ call.result.raised = ""
                   /\ call.result.value.burn_rate = 0
                   /\ call.result.value.error_budget_consumed = 0
                   /\ call.result.value.error_budget_remaining = 10000
                   /\ call.result.value.risk_level = "safe")
    /\ [][(call.op # "compute_burn_rate" /\ call'.op = "compute_burn_rate")
          => UNCHANGED <<services, slo_targets, metrics, burn_history, deployments,
                         alerts>>]_vars

\* the service has snapshots with traffic, none of them inside the window
C16_Witness ==
    /\ call.op = "compute_burn_rate"
    /\ call.result.known
    /\ call.result.requests = 0
    /\ call.result.value.risk_level = "safe"
    /\ \E m \in BagToSet(metrics) : /\ m.service_id = call.args[1]
                                    /\ m.error_count > 0

(***************************************************************************)
(* Claims about ingestion, SLO targets and registration.                   *)
(***************************************************************************)
\* C17: every stored Metric row has 0 <= error_count <= total_requests.
C17_StoredMetricsWellFormed ==
    \A m \in BagToSet(metrics) :
        /\ 0 <= m.error_count
        /\ m.error_count <= m.total_requests

\* C18: no stored SLO target has a target_value outside [0, 100] or a window
\* that is not positive, after any creations and updates.
C18_StoredTargetsInRange ==
    \A t \in slo_targets :
        /\ t.target_value >= 0
        /\ t.target_value <= 1000
        /\ t.window_days >= 1

\* C19: no service has two active SLO targets of the same name.
C19_OneActiveTargetPerName ==
    \A t, u \in slo_targets :
        ( /\ t.service_id = u.service_id
          /\ t.name = u.name
          /\ t.is_active
          /\ u.is_active )
        => t.id = u.id

\* the service has its seeded target of the name: active, 30 days, burn
\* thresholds 1.0 / 2.0
Seeded(service_id, name, target_value) ==
    \E t \in slo_targets :
        /\ t.service_id = service_id
        /\ t.name = name
        /\ t.target_value = target_value
        /\ t.window_days = 30
        /\ t.burn_rate_threshold = 1000
        /\ t.critical_burn_rate = 2000
        /\ t.is_active

\* C20: every service that has been created, by registration or by the
\* ingestion of a snapshot for a new name, has its seeded availability target
\* (99.9) and latency_p99 target (99.0).
C20_EveryServiceSeeded ==
    \A s \in services :
        /\ Seeded(s.name, "availability", 999)
        /\ Seeded(s.name, "latency_p99", 990)

\* the worker's ingestion is over, by return or by exception
IngestOver ==
    /\ call.op = "ingest_metrics"
    /\ call.result.pc \in {"returned", "raised"}

\* no other stored row has the (service, timestamp) key of the worker's row
DistinctKeys ==
    LET row == MetricRow(call.args[1])
    IN  /\ \A m \in BagToSet(metrics) :
              (m.service_id = row.service_id /\ m.timestamp = row.timestamp)
              => m = row
        /\ CopiesIn(row, metrics) <= 1

\* C21: when a worker's batch has been ingested beside other batches with
\* distinct (service, timestamp) keys, its row is stored, as it would be in
\* a serial execution.
C21_ConcurrentIngestionStoresEveryRow ==
    (IngestOver /\ DistinctKeys) => BagIn(MetricRow(call.args[1]), metrics)

(***************************************************************************)
(* Further claims about the Release Gate.                                  *)
(***************************************************************************)
\* C22: no two Deployment records share a deployment_id; a step adds at
\* most one record, at the end of the table, and leaves every record that
\* exists as it is.
C22_DeploymentsUniqueAndImmutable ==
    /\ [](\A i, j \in DOMAIN deployments :
             deployments[i].deployment_id = deployments[j].deployment_id => i = j)
    /\ [][ /\ Len(deployments') \in {Len(deployments), Len(deployments) + 1}
           /\ \A i \in DOMAIN deployments : deployments'[i] = deployments[i] ]_vars

\* a call that repeated the deployment_id of the stored record has been
\* refused by the table
C22_Witness ==
    /\ Len(deployments) = 1
    /\ gate.pc = "raised"
    /\ gate.request.deployment_id = deployments[1].deployment_id

\* a forecast has been returned
Forecast == call.op = "forecast_exhaustion"

\* C24: the forecast divides by the projected burn rate B + m exactly when
\* the trend is "increasing" (m > 0.1 per hour), and by the current burn
\* rate B when the trend is stable or decreasing or there is no trend
C24_ProjectsExactlyWhenIncreasing ==
    Forecast =>
        LET B == call.result.current_burn_rate
            trend == call.result.trend
        IN  call.result.burn_rate_for_forecast =
                IF trend # <<>> /\ trend[1].direction = "increasing"
                THEN Rat(B * trend[1].slope.den + trend[1].slope.num,
                         trend[1].slope.den)
                ELSE Rat(B, 1)

\* C25: with B the burn rate the forecast uses, R the remaining budget and W
\* the hours of the SLO window: the hours to exhaustion are (R/100) * W / B
\* (to two decimals) when B > 0 and R > 0; they are 0, with the exhaustion
\* projected for now, when R <= 0; there is neither a value nor a projected
\* time when B <= 0 and R > 0
C25_TimeToExhaustion ==
    Forecast =>
        LET B == call.result.burn_rate_for_forecast
            R == call.result.error_budget_remaining
            W == call.result.window_hours
            hours == call.result.time_to_exhaustion_hours
            at == call.result.projected_exhaustion_time
        IN  /\ B.num > 0 /\ R > 0 =>
                  hours = << MulDivRound(R, W * 10 * B.den, B.num) >>
            /\ R <= 0 =>
                  /\ hours = <<0>>
                  /\ at = << [utcnow |-> call.result.computed_at, hours |-> 0] >>
            /\ B.num <= 0 /\ R > 0 => hours = <<>> /\ at = <<>>

\* a forecast over a rising trend with budget left
C25_Witness ==
    /\ Forecast
    /\ call.result.trend # <<>>
    /\ call.result.burn_rate_trend = "increasing"
    /\ call.result.error_budget_remaining > 0
    /\ call.result.time_to_exhaustion_hours # <<>>
    /\ call.result.projected_exhaustion_time # <<>>

\* C26: in one evaluate_and_alert call the alert types attempted are
\* budget_exhausted exactly when the remaining budget is <= 0,
\* budget_critical exactly when it is above 0 and below 15, and
\* burn_rate_high exactly when the burn rate is >= 2.0; never both of the
\* budget alerts, never more than two alerts, none for an unknown service
C26_AlertTypesAttempted ==
    evalr.pc = "done" =>
        LET attempted == {evalr.attempted[i] : i \in DOMAIN evalr.attempted}
        IN  IF evalr.found
            THEN /\ "budget_exhausted" \in attempted <=> evalr.budget_remaining <= 0
                 /\ "budget_critical" \in attempted <=>
                        (evalr.budget_remaining > 0 /\ evalr.budget_remaining < 1500)
                 /\ "burn_rate_high" \in attempted <=> evalr.burn_rate >= 2000
                 /\ ~({"budget_exhausted", "budget_critical"} \subseteq attempted)
                 /\ Len(evalr.attempted) <= 2
            ELSE evalr.attempted = <<>>

\* a snapshot has been generated, and the simulator is as it left it
Snapshot == call.op = "generate_snapshot"

\* C27: an incident of the simulator is still active for every later
\* snapshot whose timestamp is at most 5 minutes after its start, is ended
\* by the first snapshot more than 30 minutes after its start, and is ended
\* at once by resolve_incident; a service that is not in incident stays so
\* until a new incident starts
C27_IncidentLifetime ==
    /\ Snapshot =>
          \A n \in SimServices :
              LET before == call.result.before
                  timestamp == call.args[1]
                  active == /\ n \in simulator._incident_services
                            /\ call.result.is_incident[n]
              IN  IF n \in before._incident_services
                  THEN LET minutes == timestamp - before._incident_start_times[n]
                       IN  /\ minutes <= 5 => active
                           /\ minutes > 30 => ~active
                           /\ active => simulator._incident_start_times[n]
                                            = before._incident_start_times[n]
                  ELSE active <=> call.result.started[n]
    /\ call.op = "resolve_incident" =>
          call.args[1] \notin simulator._incident_services

\* a snapshot more than 30 minutes after the start has ended an incident
C27_Witness ==
    /\ Snapshot
    /\ \E n \in SimServices :
          /\ n \in call.result.before._incident_services
          /\ call.args[1] - call.result.before._incident_start_times[n] > 30
          /\ n \notin simulator._incident_services
    /\ \E n \in SimServices :
          /\ n \in call.result.before._incident_services
          /\ call.args[1] - call.result.before._incident_start_times[n] <= 5
          /\ n \in simulator._incident_services

C29_ResponseDescribesOneState ==
    ReturnedKnown =>
        /\ gate.response.error_budget_remaining <= 500
              => gate.response.current_risk_level = "freeze"
        /\ gate.response.error_budget_remaining <= 1500
              => gate.response.current_risk_level \in {"danger", "freeze"}

=============================================================================
